---- MODULE Spec2Model ----
(***************************************************************************)
(* Model of the market-workflow application: the Stage 1 context builder   *)
(* (logic/modules.py), the relevance banding (logic/relevance.py), the     *)
(* Stage 2 signal detector (logic/signals.py) and the Run Signals step of  *)
(* main.py.                                                                *)
(*                                                                         *)
(* Numbers are exact integers in fixed units:                              *)
(*   prices and levels        price units                                  *)
(*   value_overlap_pct        hundredths        (0.70 is 70)               *)
(*   va_width_pct             ten-thousandths   (0.015 is 150)             *)
(*   percent distances        hundredths of a percent (2.0 is 200), which  *)
(*                            is what round(x, 2) keeps                    *)
(*   z-score values           hundredths        (round(z, 2))              *)
(*   z-score threshold        tenths            (2.5 is 25)                *)
(* A DataFrame is a function from its index to its rows; a row is a        *)
(* function from column names to values, so that row.get(key, default)     *)
(* can find a column missing.  A list is a sequence.                       *)
(***************************************************************************)
EXTENDS Integers, Sequences, FiniteSets, TLC

VARIABLES
    stage,           \* where the run is: which call has been made
    weekly_df,       \* structural rows handed to calculate_trade_ready_context
    current_prices,  \* price Series: normalized symbol -> price
    context_df,      \* result of calculate_trade_ready_context
    trade_ready_df,  \* st.session_state.trade_ready_df (the classified frame)
    klines,          \* symbol -> candle frame given to detect_signals
    signals,         \* st.session_state.signals / the list detect_signals returns
    cvd,             \* (label, delta) returned by calculate_cvd_momentum
    refresh_timestamp,  \* st.session_state.refresh_timestamp
    messages,        \* the st.error messages of the latest handler run
    tickets          \* the tickets format_ticket made of the signals

vars == <<stage, weekly_df, current_prices, context_df, trade_ready_df, klines, signals, cvd,
          refresh_timestamp, messages, tickets>>

----------------------------------------------------------------------------
(* Values *)

\* float('nan') / None: a missing number.  Every comparison with it is false.
NaN == -999999

IsNA(x) == x = NaN

Abs(x) == IF x < 0 THEN -x ELSE x

\* row.get(key, default)
Get(row, key, default) == IF key \in DOMAIN row THEN row[key] ELSE default

\* x in list
InList(x, list) == \E i \in 1..Len(list) : list[i] = x

EmptyDF == <<>>

\* round(n / d) to the nearest integer, ties to even (d # 0)
RoundDiv(n, d) ==
    LET nn == IF d < 0 THEN -n ELSE n
        dd == Abs(d)
        q  == nn \div dd
        r  == nn % dd
    IN  IF 2 * r < dd THEN q
        ELSE IF 2 * r > dd THEN q + 1
        ELSE IF q % 2 = 0 THEN q ELSE q + 1

----------------------------------------------------------------------------
(* config.py *)

TOLERANCE_PCT == 20

COMPRESSION_THRESHOLD == 150

EXTENDED_THRESHOLD == 200

OVERLAP_BALANCED == 70

OVERLAP_TRENDING == 30

\* the literals of compute_warnings' PINNED test
PINNED_BAND == 20

PINNED_WIDTH == 200

----------------------------------------------------------------------------
(* logic/modules.py: the row-local classifiers *)

\* compute_regime with both boundaries excluded
compute_regime_strict(row) ==
    LET overlap == Get(row, "value_overlap_pct", NaN)
    IN  IF IsNA(overlap) THEN "TRANSITIONAL"
        ELSE IF overlap > OVERLAP_BALANCED THEN "BALANCED"
        ELSE IF overlap < OVERLAP_TRENDING THEN "TRENDING"
        ELSE "TRANSITIONAL"

compute_regime(row) ==
    LET overlap == Get(row, "value_overlap_pct", NaN)
    IN  IF IsNA(overlap) THEN "TRANSITIONAL"
        ELSE IF overlap >= OVERLAP_BALANCED THEN "BALANCED"
        ELSE IF overlap <= OVERLAP_TRENDING THEN "TRENDING"
        ELSE "TRANSITIONAL"

compute_htf_direction(row) ==
    LET w1_poc == Get(row, "final_poc", NaN)
        w2_poc == Get(row, "prior_final_poc", NaN)
        w1_vah == Get(row, "final_vah", NaN)
        w1_val == Get(row, "final_val", NaN)
        w2_vah == Get(row, "prior_final_vah", NaN)
        w2_val == Get(row, "prior_final_val", NaN)
        mids   == ~IsNA(w1_vah) /\ ~IsNA(w1_val) /\ ~IsNA(w2_vah) /\ ~IsNA(w2_val)
        poc_delta == w1_poc - w2_poc
        \* twice mid_delta: the sign is the same
        mid_delta == (w1_vah + w1_val) - (w2_vah + w2_val)
    IN  IF IsNA(w2_poc) \/ IsNA(w1_poc) THEN "NEUTRAL"
        ELSE IF mids /\ poc_delta > 0 /\ mid_delta > 0 THEN "UP"
        ELSE IF mids /\ poc_delta < 0 /\ mid_delta < 0 THEN "DOWN"
        ELSE "NEUTRAL"

\* abs(price - level) / level <= tol, for level # 0 (a negative level makes the
\* quotient non-positive, hence within the tolerance)
WithinTolerance(price, level) ==
    /\ ~IsNA(price)
    /\ ~IsNA(level)
    /\ IF level > 0
       THEN Abs(price - level) * 10000 <= TOLERANCE_PCT * level
       ELSE TRUE

\* compute_interaction_tag with the value-area low tested before the point of control
compute_interaction_tag_val_first(row) ==
    LET price == row["price"]
        val   == row["final_val"]
        poc   == row["final_poc"]
        vah   == row["final_vah"]
    IN  IF val = 0 THEN "ZeroDivisionError"
        ELSE IF WithinTolerance(price, val) THEN "TEST_VAL"
        ELSE IF poc = 0 THEN "ZeroDivisionError"
        ELSE IF WithinTolerance(price, poc) THEN "TEST_POC"
        ELSE IF vah = 0 THEN "ZeroDivisionError"
        ELSE IF WithinTolerance(price, vah) THEN "TEST_VAH"
        ELSE IF ~IsNA(price) /\ ~IsNA(val) /\ ~IsNA(vah) /\ val <= price /\ price <= vah
             THEN "INSIDE_VALUE"
        ELSE IF ~IsNA(price) /\ ~IsNA(val) /\ price < val THEN "BELOW_VALUE"
        ELSE IF ~IsNA(price) /\ ~IsNA(vah) /\ price > vah THEN "ABOVE_VALUE"
        ELSE "UNKNOWN"

\* The tag, or "ZeroDivisionError" when a division by a zero level is reached:
\* the operands are Python floats, whose division by 0.0 raises.
compute_interaction_tag(row) ==
    LET price == row["price"]
        val   == row["final_val"]
        poc   == row["final_poc"]
        vah   == row["final_vah"]
    IN  IF poc = 0 THEN "ZeroDivisionError"
        ELSE IF WithinTolerance(price, poc) THEN "TEST_POC"
        ELSE IF val = 0 THEN "ZeroDivisionError"
        ELSE IF WithinTolerance(price, val) THEN "TEST_VAL"
        ELSE IF vah = 0 THEN "ZeroDivisionError"
        ELSE IF WithinTolerance(price, vah) THEN "TEST_VAH"
        ELSE IF ~IsNA(price) /\ ~IsNA(val) /\ ~IsNA(vah) /\ val <= price /\ price <= vah
             THEN "INSIDE_VALUE"
        ELSE IF ~IsNA(price) /\ ~IsNA(val) /\ price < val THEN "BELOW_VALUE"
        ELSE IF ~IsNA(price) /\ ~IsNA(vah) /\ price > vah THEN "ABOVE_VALUE"
        ELSE "UNKNOWN"

\* Signed % distance in hundredths of a percent, NaN for None.
pct_distance(price, level) ==
    IF IsNA(level) \/ level = 0 THEN NaN
    ELSE RoundDiv((price - level) * 10000, level)

\* str.lower() on the coverage flags of the model
Lower(s) ==
    CASE s = "FULL" -> "full"
      [] s = "Complete" -> "complete"
      [] s = "PARTIAL" -> "partial"
      [] OTHER -> s

\* compute_warnings with PINNED given on either condition alone
compute_warnings_either(row) ==
    LET coverage == Get(row, "coverage_flag", "")
        va_width == Get(row, "va_width_pct", NaN)
        pct_poc  == Get(row, "pct_to_w_poc", NaN)
        pct_val  == Get(row, "pct_to_w_val", NaN)
        pct_vah  == Get(row, "pct_to_w_vah", NaN)
        w1 == IF coverage # "" /\ Lower(coverage) \notin {"full", "complete", ""}
              THEN <<"LOW_CONFIDENCE">> ELSE <<>>
        w2 == IF ~IsNA(va_width) /\ va_width < COMPRESSION_THRESHOLD
              THEN Append(w1, "COMPRESSED") ELSE w1
        w3 == IF \/ ~IsNA(pct_poc) /\ Abs(pct_poc) < PINNED_BAND
                 \/ ~IsNA(va_width) /\ va_width < PINNED_WIDTH
              THEN Append(w2, "PINNED") ELSE w2
        w4 == IF ~IsNA(pct_val) /\ pct_val < -EXTENDED_THRESHOLD
              THEN Append(w3, "EXTENDED") ELSE w3
        w5 == IF ~IsNA(pct_vah) /\ pct_vah > EXTENDED_THRESHOLD
              THEN Append(w4, "EXTENDED") ELSE w4
    IN  w5

compute_warnings(row) ==
    LET coverage == Get(row, "coverage_flag", "")
        va_width == Get(row, "va_width_pct", NaN)
        pct_poc  == Get(row, "pct_to_w_poc", NaN)
        pct_val  == Get(row, "pct_to_w_val", NaN)
        pct_vah  == Get(row, "pct_to_w_vah", NaN)
        w1 == IF coverage # "" /\ Lower(coverage) \notin {"full", "complete", ""}
              THEN <<"LOW_CONFIDENCE">> ELSE <<>>
        w2 == IF ~IsNA(va_width) /\ va_width < COMPRESSION_THRESHOLD
              THEN Append(w1, "COMPRESSED") ELSE w1
        w3 == IF ~IsNA(pct_poc) /\ Abs(pct_poc) < PINNED_BAND
                 /\ ~IsNA(va_width) /\ va_width < PINNED_WIDTH
              THEN Append(w2, "PINNED") ELSE w2
        w4 == IF ~IsNA(pct_val) /\ pct_val < -EXTENDED_THRESHOLD
              THEN Append(w3, "EXTENDED") ELSE w3
        w5 == IF ~IsNA(pct_vah) /\ pct_vah > EXTENDED_THRESHOLD
              THEN Append(w4, "EXTENDED") ELSE w4
    IN  w5

\* compute_bias_compatibility without the pinned/compressed override
compute_bias_compatibility_no_override(row) ==
    LET regime      == Get(row, "regime_w1", "TRANSITIONAL")
        htf_dir     == Get(row, "htf_dir_w1", "NEUTRAL")
        interaction == Get(row, "now_interaction_w1", "UNKNOWN")
    IN  IF regime = "TRENDING" THEN
            IF htf_dir = "UP" THEN
                IF interaction \in {"BELOW_VALUE", "TEST_VAL", "TEST_POC", "INSIDE_VALUE"}
                THEN "FAVORS_LONG" ELSE "NEUTRAL_WAIT"
            ELSE IF htf_dir = "DOWN" THEN
                IF interaction \in {"ABOVE_VALUE", "TEST_VAH", "TEST_POC", "INSIDE_VALUE"}
                THEN "FAVORS_SHORT" ELSE "NEUTRAL_WAIT"
            ELSE "NEUTRAL_WAIT"
        ELSE IF regime \in {"BALANCED", "TRANSITIONAL"} THEN
            IF interaction \in {"TEST_VAL", "BELOW_VALUE"} THEN "FAVORS_LONG"
            ELSE IF interaction \in {"TEST_VAH", "ABOVE_VALUE"} THEN "FAVORS_SHORT"
            ELSE "NEUTRAL_WAIT"
        ELSE "NEUTRAL_WAIT"

compute_bias_compatibility(row) ==
    LET warnings   == Get(row, "warnings", <<>>)
        regime      == Get(row, "regime_w1", "TRANSITIONAL")
        htf_dir     == Get(row, "htf_dir_w1", "NEUTRAL")
        interaction == Get(row, "now_interaction_w1", "UNKNOWN")
    IN  IF InList("PINNED", warnings) \/ InList("COMPRESSED", warnings) THEN "NEUTRAL_WAIT"
        ELSE IF regime = "TRENDING" THEN
            IF htf_dir = "UP" THEN
                IF interaction \in {"BELOW_VALUE", "TEST_VAL", "TEST_POC", "INSIDE_VALUE"}
                THEN "FAVORS_LONG" ELSE "NEUTRAL_WAIT"
            ELSE IF htf_dir = "DOWN" THEN
                IF interaction \in {"ABOVE_VALUE", "TEST_VAH", "TEST_POC", "INSIDE_VALUE"}
                THEN "FAVORS_SHORT" ELSE "NEUTRAL_WAIT"
            ELSE "NEUTRAL_WAIT"
        ELSE IF regime = "BALANCED" THEN
            IF interaction \in {"TEST_VAL", "BELOW_VALUE"} THEN "FAVORS_LONG"
            ELSE IF interaction \in {"TEST_VAH", "ABOVE_VALUE"} THEN "FAVORS_SHORT"
            ELSE "NEUTRAL_WAIT"
        ELSE IF regime = "TRANSITIONAL" THEN
            IF interaction \in {"TEST_VAL", "BELOW_VALUE"} THEN "FAVORS_LONG"
            ELSE IF interaction \in {"TEST_VAH", "ABOVE_VALUE"} THEN "FAVORS_SHORT"
            ELSE "NEUTRAL_WAIT"
        ELSE "NEUTRAL_WAIT"

----------------------------------------------------------------------------
(* logic/relevance.py *)

\* _get_band with the level tests ahead of the warning rules
_get_band_tests_first(row) ==
    LET warnings    == Get(row, "warnings", <<>>)
        regime      == Get(row, "regime_w1", "TRANSITIONAL")
        interaction == Get(row, "now_interaction_w1", "UNKNOWN")
    IN  IF interaction \in {"TEST_POC", "TEST_VAL", "TEST_VAH"} THEN "Trade Ready"
        ELSE IF InList("COMPRESSED", warnings) THEN "Ignore for Now"
        ELSE IF InList("PINNED", warnings) /\ regime = "BALANCED" THEN "Ignore for Now"
        ELSE IF regime \in {"TRENDING", "TRANSITIONAL"} THEN "Trade Ready"
        ELSE IF regime = "BALANCED" /\ interaction = "INSIDE_VALUE" THEN "Watch"
        ELSE "Ignore for Now"

_get_band(row) ==
    LET warnings   == Get(row, "warnings", <<>>)
        regime      == Get(row, "regime_w1", "TRANSITIONAL")
        interaction == Get(row, "now_interaction_w1", "UNKNOWN")
    IN  IF InList("COMPRESSED", warnings) THEN "Ignore for Now"
        ELSE IF InList("PINNED", warnings) /\ regime = "BALANCED" THEN "Ignore for Now"
        ELSE IF interaction \in {"TEST_POC", "TEST_VAL", "TEST_VAH"} THEN "Trade Ready"
        ELSE IF regime \in {"TRENDING", "TRANSITIONAL"} THEN "Trade Ready"
        ELSE IF regime = "BALANCED" /\ interaction = "INSIDE_VALUE" THEN "Watch"
        ELSE "Ignore for Now"

classify_relevance(df) ==
    IF DOMAIN df = {} THEN df
    ELSE [s \in DOMAIN df |-> df[s] @@ ("relevance_band" :> _get_band(df[s]))]

----------------------------------------------------------------------------
(* logic/signals.py *)

\* defaults and literals of the detector (z-score threshold in tenths: 2.5)
ZSCORE_WINDOW == 20

SHORT_PERIOD == 11

LONG_PERIOD == 21

MIN_CANDLES == 25

ZSCORE_THRESHOLD == 25

\* limit of the Run Signals fetch
KLINES_LIMIT == 50

RECURSIVE SumVolume(_, _, _)
\* the sum of the volumes of candles lo..hi
SumVolume(candles, lo, hi) ==
    IF lo > hi THEN 0 ELSE candles[hi].volume + SumVolume(candles, lo, hi - 1)

RECURSIVE SumSquares(_, _, _)
\* the sum of the squared volumes of candles lo..hi
SumSquares(candles, lo, hi) ==
    IF lo > hi THEN 0
    ELSE candles[hi].volume * candles[hi].volume + SumSquares(candles, lo, hi - 1)

RECURSIVE SumSeq(_, _, _)
\* seq[lo] + ... + seq[hi]
SumSeq(seq, lo, hi) == IF lo > hi THEN 0 ELSE seq[hi] + SumSeq(seq, lo, hi - 1)

\* With x the latest volume, and S and Q the sums of the volumes and of their
\* squares over the rolling window of w candles:
\*   x - mean = ZNum / w,   std^2 = ZVar / (w * (w - 1))     (ddof = 1)
ZNum(candles, w) ==
    LET n == Len(candles)
    IN  w * candles[n].volume - SumVolume(candles, n - w + 1, n)

ZVar(candles, w) ==
    LET n == Len(candles)
        S == SumVolume(candles, n - w + 1, n)
        Q == SumSquares(candles, n - w + 1, n)
    IN  w * Q - S * S

\* calculate_zscore(...).iloc[-1] is NaN when the window is not full or the
\* rolling std is 0 (0 / 0)
ZDefined(candles, w) == Len(candles) >= w /\ ZVar(candles, w) # 0

\* latest_zscore >= threshold (threshold in tenths, positive):
\*   z^2 = ZNum^2 * (w - 1) / (w * ZVar)
\* (w divides 100 * (w - 1) for the window of the source, 20)
ZAtLeast(candles, w, threshold) ==
    /\ ZDefined(candles, w)
    /\ ZNum(candles, w) > 0
    /\ ((100 * (w - 1)) \div w) * ZNum(candles, w) * ZNum(candles, w)
         >= threshold * threshold * ZVar(candles, w)

\* floor(a * b / c) for 0 <= a, 0 < c, b = b1 * b2, without leaving 32 bits
MulDiv(a, b1, b2, c) ==
    LET q0 == a \div c
        r0 == a % c
        q1 == (b1 * r0) \div c
        r1 == (b1 * r0) % c
    IN  b1 * b2 * q0 + b2 * q1 + (b2 * r1) \div c

\* round(float(latest_zscore), 2) in hundredths: the integer k nearest to
\* 100 * z, that is (2k - 1)^2 <= 4 * 10000 * z^2 < (2k + 1)^2
\* (|z| <= (w - 1) / sqrt(w) < 5 for the latest of w values)
ZScore100(candles, w) ==
    LET A == ZNum(candles, w)
        V == ZVar(candles, w)
        M == MulDiv(A * A, 200, (200 * (w - 1)) \div w, V)
        k == CHOOSE j \in 0..500 :
                 /\ j = 0 \/ (2 * j - 1) * (2 * j - 1) <= M
                 /\ M < (2 * j + 1) * (2 * j + 1)
    IN  IF A < 0 THEN -k ELSE k

RECURSIVE CumSum(_, _)
\* the first i values of ((2 * taker_buy_base) - volume).cumsum()
CumSum(candles, i) ==
    IF i = 0 THEN <<>>
    ELSE LET before == CumSum(candles, i - 1)
             delta  == 2 * candles[i].taker_buy_base - candles[i].volume
         IN  Append(before, (IF i = 1 THEN 0 ELSE before[i - 1]) + delta)

\* cvd = delta.cumsum()
CvdCurve(candles) == CumSum(candles, Len(candles))

\* calculate_cvd_momentum with the two labels exchanged
calculate_cvd_momentum_swapped(df, short_period, long_period) ==
    LET n == Len(df.candles)
        curve == CvdCurve(df.candles)
        sum_short == SumSeq(curve, n - short_period + 1, n)
        sum_long  == SumSeq(curve, n - long_period + 1, n)
    IN  IF n = 0 \/ n < long_period THEN <<"NEUTRAL", NaN>>
        ELSE IF n < short_period THEN <<"NEUTRAL", NaN>>
        ELSE IF 100 * long_period * sum_short > 101 * short_period * sum_long
             THEN <<"BEARISH", long_period * sum_short - short_period * sum_long>>
        ELSE IF 100 * long_period * sum_short < 99 * short_period * sum_long
             THEN <<"BULLISH", long_period * sum_short - short_period * sum_long>>
        ELSE <<"NEUTRAL", long_period * sum_short - short_period * sum_long>>

\* <<label, delta>>; delta = short MA - long MA in units of
\* 1 / (short_period * long_period), NaN for None
calculate_cvd_momentum(df, short_period, long_period) ==
    LET n == Len(df.candles)
        curve == CvdCurve(df.candles)
        sum_short == SumSeq(curve, n - short_period + 1, n)
        sum_long  == SumSeq(curve, n - long_period + 1, n)
    IN  IF n = 0 \/ n < long_period THEN <<"NEUTRAL", NaN>>
        ELSE IF n < short_period THEN <<"NEUTRAL", NaN>>
        ELSE IF 100 * long_period * sum_short > 101 * short_period * sum_long
             THEN <<"BULLISH", long_period * sum_short - short_period * sum_long>>
        ELSE IF 100 * long_period * sum_short < 99 * short_period * sum_long
             THEN <<"BEARISH", long_period * sum_short - short_period * sum_long>>
        ELSE <<"NEUTRAL", long_period * sum_short - short_period * sum_long>>

MkSignal(symbol, trigger, zscore, cvd_momentum, price_loc, context_row) ==
    [symbol |-> symbol, trigger |-> trigger, zscore |-> zscore,
     cvd_momentum |-> cvd_momentum, price_loc |-> price_loc,
     auction_state |-> Get(context_row, "weekly_auction_state", "N/A"),
     current_price |-> Get(context_row, "current_price", 0)]

\* detect_signals carrying an undefined z-score as 0
detect_signals_zero(symbol, klines_df, context_row, zscore_threshold) ==
    IF Len(klines_df.candles) = 0 \/ Len(klines_df.candles) < MIN_CANDLES
    THEN [signals |-> <<>>, klines_df |-> klines_df]
    ELSE
        LET c == klines_df.candles
            zscore == IF ZDefined(c, ZSCORE_WINDOW) THEN ZScore100(c, ZSCORE_WINDOW) ELSE 0
            cvd_momentum == calculate_cvd_momentum(klines_df, SHORT_PERIOD, LONG_PERIOD)[1]
            price_loc == Get(context_row, "price_loc_w", "UNKNOWN")
            auction_state == Get(context_row, "weekly_auction_state", "N/A")
            a == IF ZAtLeast(c, ZSCORE_WINDOW, zscore_threshold)
                    /\ price_loc \in {"TEST_POC", "ABOVE", "BELOW"}
                 THEN <<MkSignal(symbol, "VOL_ZSCORE", zscore, cvd_momentum, price_loc,
                                 context_row)>>
                 ELSE <<>>
            b == IF cvd_momentum = "BULLISH" /\ auction_state = "TRENDING"
                    /\ price_loc \in {"BELOW", "TEST_POC"}
                 THEN <<MkSignal(symbol, "CVD_BULLISH_ALIGN", zscore, cvd_momentum,
                                 price_loc, context_row)>>
                 ELSE IF cvd_momentum = "BEARISH" /\ auction_state = "TRENDING"
                         /\ price_loc \in {"ABOVE", "TEST_POC"}
                 THEN <<MkSignal(symbol, "CVD_BEARISH_ALIGN", zscore, cvd_momentum,
                                 price_loc, context_row)>>
                 ELSE <<>>
        IN  [signals |-> a \o b,
             klines_df |-> [klines_df EXCEPT !.columns = @ \cup {"vol_zscore"}]]

\* [signals, klines_df]: the returned list, and the caller's frame as the call
\* leaves it (the vol_zscore column is assigned in place)
detect_signals(symbol, klines_df, context_row, zscore_threshold) ==
    IF Len(klines_df.candles) = 0 \/ Len(klines_df.candles) < MIN_CANDLES
    THEN [signals |-> <<>>, klines_df |-> klines_df]
    ELSE
        LET c == klines_df.candles
            defined == ZDefined(c, ZSCORE_WINDOW)
            zscore == IF defined THEN ZScore100(c, ZSCORE_WINDOW) ELSE NaN
            cvd_momentum == calculate_cvd_momentum(klines_df, SHORT_PERIOD, LONG_PERIOD)[1]
            price_loc == Get(context_row, "price_loc_w", "UNKNOWN")
            is_at_level == price_loc \in {"TEST_POC", "ABOVE", "BELOW"}
            auction_state == Get(context_row, "weekly_auction_state", "N/A")
            a == IF ZAtLeast(c, ZSCORE_WINDOW, zscore_threshold) /\ is_at_level
                 THEN <<MkSignal(symbol, "VOL_ZSCORE", zscore, cvd_momentum, price_loc,
                                 context_row)>>
                 ELSE <<>>
            b == IF cvd_momentum = "BULLISH" /\ auction_state = "TRENDING"
                    /\ price_loc \in {"BELOW", "TEST_POC"}
                 THEN <<MkSignal(symbol, "CVD_BULLISH_ALIGN", zscore, cvd_momentum,
                                 price_loc, context_row)>>
                 ELSE IF cvd_momentum = "BEARISH" /\ auction_state = "TRENDING"
                         /\ price_loc \in {"ABOVE", "TEST_POC"}
                 THEN <<MkSignal(symbol, "CVD_BEARISH_ALIGN", zscore, cvd_momentum,
                                 price_loc, context_row)>>
                 ELSE <<>>
        IN  [signals |-> a \o b,
             klines_df |-> [klines_df EXCEPT !.columns = @ \cup {"vol_zscore"}]]

\* Text is a sequence of pieces.
DigitChars == <<"0", "1", "2", "3", "4", "5", "6", "7", "8", "9">>

RECURSIVE IntText(_)
\* the decimal digits of n >= 0
IntText(n) ==
    IF n < 10 THEN <<DigitChars[n + 1]>>
    ELSE Append(IntText(n \div 10), DigitChars[(n % 10) + 1])

\* str() of the float round(z, 2), z given in hundredths: the shortest decimal,
\* with one digit after the point at least (the hundredths do not keep the
\* sign of a zero)
FloatText(h) ==
    LET a == Abs(h)
        f == a % 100
    IN  (IF h < 0 THEN <<"-">> ELSE <<>>) \o IntText(a \div 100) \o <<".">>
        \o (IF f % 10 = 0 THEN <<DigitChars[(f \div 10) + 1]>>
            ELSE <<DigitChars[(f \div 10) + 1], DigitChars[(f % 10) + 1]>>)

\* f"{price:.2f}" of a price of whole units
PriceText(p) == (IF p < 0 THEN <<"-">> ELSE <<>>) \o IntText(Abs(p)) \o <<".", "0", "0">>

\* f"{signal.get('zscore', 'N/A')}": the default is used for a missing key
\* only; a key holding None is formatted as str(None)
ZScoreText(signal) ==
    IF "zscore" \notin DOMAIN signal THEN <<"N/A">>
    ELSE IF IsNA(signal["zscore"]) THEN <<"None">>
    ELSE FloatText(signal["zscore"])

format_ticket(signal) ==
    signal["symbol"] \o <<" | ", signal["trigger"], " | ", "Z:">> \o ZScoreText(signal)
    \o <<" | ", "CVD:", signal["cvd_momentum"], " | ", "Loc:", signal["price_loc"],
         " | ", "State:", signal["auction_state"], " | ", "@">>
    \o PriceText(signal["current_price"])

----------------------------------------------------------------------------
(* logic/modules.py: calculate_trade_ready_context *)

\* A symbol is the sequence of the pieces of its text, ".P" being the contract
\* suffix; str.replace('.P', '', regex=False) drops every occurrence of it.
StripSuffix(symbol) == SelectSeq(symbol, LAMBDA piece : piece # ".P")

\* the rows an ascending sort would put first
LatestRows_ascending(df, key) ==
    LET mine == {r \in df : StripSuffix(r["symbol"]) = key}
    IN  {r \in mine : \A o \in mine : r["period_start_date"] <= o["period_start_date"]}

\* sort_values('period_start_date', ascending=False) followed by
\* drop_duplicates('symbol_clean'): for each normalized symbol the first row of
\* the sorted frame.  The sort is not stable (pandas' default quicksort), so
\* among the rows of a symbol that share the latest date any may come first.
LatestRows(df, key) ==
    LET mine == {r \in df : StripSuffix(r["symbol"]) = key}
    IN  {r \in mine : \A o \in mine : o["period_start_date"] <= r["period_start_date"]}

LatestPicks(df) ==
    LET keys == {StripSuffix(r["symbol"]) : r \in df}
    IN  {pick \in [keys -> df] : \A k \in keys : pick[k] \in LatestRows(df, k)}

\* Step 5 of the function for one joined row: the derived columns, in the
\* order of the source.  "raised" tells that compute_interaction_tag raised.
\* Each step reads the row as the step before left it (s1..s8 are the
\* one-row frames after each assignment).
DeriveRow(row) ==
    LET With(r, column, value) == (column :> value) @@ r
        s1 == {With(r, "regime_w1", compute_regime(r)) : r \in {row}}
        s2 == {With(r, "htf_dir_w1", compute_htf_direction(r)) : r \in s1}
        s3 == {With(r, "now_interaction_w1", compute_interaction_tag(r)) : r \in s2}
        s4 == {With(r, "pct_to_w_val", pct_distance(r["price"], r["final_val"])) : r \in s3}
        s5 == {With(r, "pct_to_w_poc", pct_distance(r["price"], r["final_poc"])) : r \in s4}
        s6 == {With(r, "pct_to_w_vah", pct_distance(r["price"], r["final_vah"])) : r \in s5}
        s7 == {With(r, "warnings", compute_warnings(r)) : r \in s6}
        s8 == {With(r, "bias_compatibility", compute_bias_compatibility(r)) : r \in s7}
    IN  CHOOSE out \in {[raised |-> r["now_interaction_w1"] = "ZeroDivisionError", row |-> r] :
                           r \in s8} : TRUE

\* The whole function, given the outcome `pick` of the sort.  The result is
\* [raised, df]: raised when an exception escapes (df is then no result).
calculate_trade_ready_context(df, prices, pick) ==
    IF df = {} THEN [raised |-> FALSE, df |-> EmptyDF]
    ELSE
        LET priced == {k \in DOMAIN pick : k \in DOMAIN prices /\ ~IsNA(prices[k])}
            joined == [k \in priced |-> ("price" :> prices[k]) @@ pick[k]]
            derived == [k \in priced |-> DeriveRow(joined[k])]
        IN  IF priced = {} THEN [raised |-> FALSE, df |-> EmptyDF]
            ELSE IF \E k \in priced : derived[k].raised
                 THEN [raised |-> TRUE, df |-> EmptyDF]
            ELSE [raised |-> FALSE, df |-> [k \in priced |-> derived[k].row]]

----------------------------------------------------------------------------
(* Inputs *)

\* at most this many structural rows in a mixed input
MaxRows == 3

\* period_start_date ranges over 1..MaxPeriod
MaxPeriod == 2

BTC == <<"BTCUSDT">>

ETH == <<"ETHUSDT">>

MkRow(symbol, timeframe, date, val, poc, vah, pval, ppoc, pvah, width, overlap, flag) ==
    [symbol |-> symbol, timeframe |-> timeframe, period_start_date |-> date,
     final_val |-> val, final_poc |-> poc, final_vah |-> vah,
     prior_final_val |-> pval, prior_final_poc |-> ppoc, prior_final_vah |-> pvah,
     va_width_pct |-> width, value_overlap_pct |-> overlap, coverage_flag |-> flag]

\* <<val, poc, vah, prior val, prior poc, prior vah>>
Profiles ==
    { <<9000, 10000, 11000, 8500, 9500, 10500>>,      \* value migrating up
      <<9000, 10000, 11000, 9500, 10500, 11500>>,     \* value migrating down
      <<9000, 10000, 11000, NaN, NaN, NaN>>,          \* first period: no prior
      <<9990, 10000, 10010, 9990, 10000, 10010>>,     \* narrow value area
      <<11000, 10000, 9000, 10500, 9500, 8500>>,      \* low above high
      <<9000, 0, 11000, 8500, 9500, 10500>>,          \* zero point of control
      <<0, 10000, 11000, 8500, 9500, 10500>>,         \* zero value-area low
      <<9000, 10000, 0, 8500, 9500, 10500>> }         \* zero value-area high

Overlaps == {NaN, 10, 30, 31, 69, 70, 85}

Widths == {NaN, 100, 149, 150, 199, 200, 500}

GridPriceValues ==
    {8000, 8819, 8820, 8990, 9000, 9500, 10000, 10019, 10020, 10021, 11000, 11220,
     11221, 11550}

\* one weekly row of one symbol, over the whole grid of its fields
GridRows ==
    { MkRow(BTC, "W", 1, p[1], p[2], p[3], p[4], p[5], p[6], w, o, "full") :
        p \in Profiles, w \in Widths, o \in Overlaps }

\* rows of several symbols, timeframes and periods; every row has its own levels
PoolRow(s, t, d) ==
    LET shift == 100 * d + (IF t = "D" THEN 50 ELSE 0) + Len(s)
    IN  MkRow(s, t, d, 9000 + shift, 10000 + shift, 11000 + shift, 9000, 10000, 11000,
              500, 10 * d, IF t = "D" THEN "PARTIAL" ELSE "Complete")

PoolRows ==
    { PoolRow(s, t, d) : s \in {BTC, BTC \o <<".P">>}, t \in {"W", "D"}, d \in 1..MaxPeriod }
    \cup { PoolRow(ETH \o <<".P">>, "W", d) : d \in 1..MaxPeriod }

RECURSIVE SubsetsUpTo(_, _)
SubsetsUpTo(S, n) ==
    IF n = 0 THEN {{}}
    ELSE LET P == SubsetsUpTo(S, n - 1)
         IN  P \cup {p \cup {x} : p \in P, x \in S}

PoolPrices ==
    { <<>>, (BTC :> 10100), (BTC :> 10100) @@ (ETH :> 10100), (BTC :> NaN) @@ (ETH :> 10100) }

\* frames handed directly to compute_bias_compatibility and classify_relevance
WarningLists ==
    { <<>>, <<"COMPRESSED">>, <<"PINNED">>, <<"COMPRESSED", "PINNED">>, <<"EXTENDED">>,
      <<"LOW_CONFIDENCE">>, <<"LOW_CONFIDENCE", "PINNED", "EXTENDED">>,
      <<"EXTENDED", "EXTENDED">> }

Regimes == {"BALANCED", "TRENDING", "TRANSITIONAL"}

Directions == {"UP", "DOWN", "NEUTRAL"}

Interactions ==
    {"TEST_POC", "TEST_VAL", "TEST_VAH", "INSIDE_VALUE", "BELOW_VALUE", "ABOVE_VALUE",
     "UNKNOWN"}

GivenRows ==
    { [warnings |-> w, regime_w1 |-> g, htf_dir_w1 |-> d, now_interaction_w1 |-> i] :
        w \in WarningLists, g \in Regimes, d \in Directions, i \in Interactions }
    \cup { [warnings |-> w, now_interaction_w1 |-> i] :
             w \in WarningLists, i \in Interactions }

\* candle series: <<volume, taker_buy_base>> of each kind of candle
CandleKinds ==
    { <<10, 6>>,      \* buyers ahead
      <<10, 4>>,      \* sellers ahead
      <<9, 5>>,       \* buyers just above 0.55 of a small volume
      <<60, 60>>,     \* large volume, all bought
      <<60, 10>> }    \* large volume, mostly sold

Candle(kind) == [volume |-> kind[1], taker_buy_base |-> kind[2]]

KlineColumns ==
    {"timestamp", "open", "high", "low", "close", "volume", "close_time", "quote_vol",
     "trades", "taker_buy_base", "taker_buy_quote", "ignore"}

\* n candles: k of kind x, then of kind y, the latest of kind z
Series(n, k, x, y, z) ==
    [columns |-> KlineColumns,
     candles |-> [i \in 1..n |-> IF i = n THEN Candle(z)
                                 ELSE IF i <= k THEN Candle(x) ELSE Candle(y)]]

\* pd.DataFrame(): what get_klines returns when the fetch fails
EmptyKlines == [columns |-> {}, candles |-> <<>>]

\* the longest series handed to a direct call
MaxCandles == 31

SeriesLengths == {LONG_PERIOD - 1, LONG_PERIOD, MIN_CANDLES - 1, MIN_CANDLES, 30, MaxCandles}

CallKlines ==
    {EmptyKlines} \cup
    { Series(n, k, x, y, z) : n \in SeriesLengths, k \in {0, 9},
                              x \in CandleKinds, y \in CandleKinds, z \in CandleKinds }

\* context rows of a direct call of detect_signals
CallRows ==
    { [price_loc_w |-> l, weekly_auction_state |-> a, current_price |-> 10100] :
        l \in {"TEST_POC", "ABOVE", "BELOW", "INSIDE"}, a \in {"TRENDING", "BALANCED"} }
    \cup { [now_interaction_w1 |-> "TEST_POC", regime_w1 |-> "TRENDING", price |-> 10100] }

\* what the fetch of the Run Signals step may return
FetchedKlines ==
    { EmptyKlines,
      Series(KLINES_LIMIT, 0, <<10, 6>>, <<10, 6>>, <<60, 60>>),
      Series(KLINES_LIMIT, 0, <<10, 4>>, <<10, 4>>, <<10, 4>>) }

NoKlines == <<>>

NoCvd == <<"none", NaN>>

\* refresh_timestamp = None
NoTimestamp == 0

----------------------------------------------------------------------------
(* The run: inputs, then the calls of the Refresh and Run Signals steps *)

InitInputs ==
    /\ stage = "input"
    /\ \/ weekly_df \in {{r} : r \in GridRows} /\ current_prices \in {(BTC :> p) : p \in GridPriceValues}
       \/ weekly_df \in SubsetsUpTo(PoolRows, MaxRows) /\ current_prices \in PoolPrices
    /\ context_df = EmptyDF

InitGiven ==
    /\ stage = "rows"
    /\ weekly_df = {}
    /\ current_prices = <<>>
    /\ context_df \in {(BTC :> r) : r \in GivenRows}

Init ==
    /\ InitInputs \/ InitGiven
    /\ trade_ready_df = EmptyDF
    /\ klines = NoKlines
    /\ signals = <<>>
    /\ cvd = NoCvd
    /\ refresh_timestamp = NoTimestamp
    /\ messages = <<>>
    /\ tickets = <<>>

\* context_df = calculate_trade_ready_context(weekly_df, prices_series)
CalculateContext ==
    /\ stage = "input"
    /\ \E pick \in LatestPicks(weekly_df) :
         LET res == calculate_trade_ready_context(weekly_df, current_prices, pick)
         IN  /\ stage' = IF res.raised THEN "raised" ELSE "context"
             /\ context_df' = res.df
    /\ UNCHANGED <<weekly_df, current_prices, trade_ready_df, klines, signals, cvd, refresh_timestamp, messages, tickets>>

\* df.apply(compute_bias_compatibility, axis=1) on a frame given directly
ApplyBias ==
    /\ stage = "rows"
    /\ context_df' = [s \in DOMAIN context_df |->
                        ("bias_compatibility" :> compute_bias_compatibility(context_df[s]))
                        @@ context_df[s]]
    /\ stage' = "rows_bias"
    /\ UNCHANGED <<weekly_df, current_prices, trade_ready_df, klines, signals, cvd, refresh_timestamp, messages, tickets>>

\* st.session_state.trade_ready_df = classify_relevance(context_df)
ClassifyRelevance ==
    /\ stage \in {"context", "rows_bias"}
    /\ trade_ready_df' = classify_relevance(context_df)
    /\ stage' = IF stage = "context" THEN "classified" ELSE "rows_band"
    /\ UNCHANGED <<weekly_df, current_prices, context_df, klines, signals, cvd, refresh_timestamp, messages, tickets>>

RECURSIVE InOrder(_)
\* the symbols of a frame's index, as the loop meets them
InOrder(S) ==
    IF S = {} THEN <<>>
    ELSE LET x == CHOOSE y \in S : TRUE
         IN  <<x>> \o InOrder(S \ {x})

RECURSIVE Extend(_, _, _)
\* session signals after the loop over the symbols order[i..]
Extend(order, i, results) ==
    IF i > Len(order) THEN <<>>
    ELSE results[order[i]].signals \o Extend(order, i + 1, results)

\* The Run Signals button: the signals list is reset, then every Trade Ready
\* symbol is fetched and scanned
RunSignals ==
    /\ stage = "classified"
    /\ DOMAIN trade_ready_df # {}
    /\ LET df == trade_ready_df
           relevant_symbols == {s \in DOMAIN df : df[s]["relevance_band"] = "Trade Ready"}
       IN  \E fetched \in [relevant_symbols -> FetchedKlines] :
             LET results == [s \in relevant_symbols |->
                               detect_signals(s, fetched[s], df[s], ZSCORE_THRESHOLD)]
             IN  /\ signals' = Extend(InOrder(relevant_symbols), 1, results)
                 /\ klines' = [s \in relevant_symbols |-> results[s].klines_df]
    /\ stage' = "scanned"
    /\ UNCHANGED <<weekly_df, current_prices, context_df, trade_ready_df, cvd, refresh_timestamp, messages, tickets>>

Next == CalculateContext \/ ApplyBias \/ ClassifyRelevance \/ RunSignals

Spec == Init /\ [][Next]_vars

----------------------------------------------------------------------------
(* Direct calls of the signal functions on one symbol's candles *)

InitCall ==
    /\ stage = "call"
    /\ weekly_df = {}
    /\ current_prices = <<>>
    /\ context_df = EmptyDF
    /\ trade_ready_df \in {(BTC :> r) : r \in CallRows}
    /\ klines \in {(BTC :> k) : k \in CallKlines}
    /\ signals = <<>>
    /\ cvd = NoCvd
    /\ refresh_timestamp = NoTimestamp
    /\ messages = <<>>
    /\ tickets = <<>>

\* new_signals = detect_signals(symbol, klines, df.loc[symbol].to_dict(), 2.5)
DetectSignals ==
    /\ stage = "call"
    /\ \E s \in DOMAIN klines :
         LET res == detect_signals(s, klines[s], trade_ready_df[s], ZSCORE_THRESHOLD)
         IN  /\ signals' = res.signals
             /\ klines' = (s :> res.klines_df)
    /\ stage' = "detected"
    /\ UNCHANGED <<weekly_df, current_prices, context_df, trade_ready_df, cvd, refresh_timestamp, messages, tickets>>

\* calculate_cvd_momentum(klines)
CvdMomentum ==
    /\ stage = "call"
    /\ \E s \in DOMAIN klines :
         cvd' = calculate_cvd_momentum(klines[s], SHORT_PERIOD, LONG_PERIOD)
    /\ stage' = "momentum"
    /\ UNCHANGED <<weekly_df, current_prices, context_df, trade_ready_df, klines, signals, refresh_timestamp, messages, tickets>>

\* export_text: format_ticket of every signal of a non-empty list
FormatTickets ==
    /\ stage = "detected"
    /\ signals # <<>>
    /\ tickets' = [i \in 1..Len(signals) |-> format_ticket(signals[i])]
    /\ stage' = "formatted"
    /\ UNCHANGED <<weekly_df, current_prices, context_df, trade_ready_df, klines, signals,
                   cvd, refresh_timestamp, messages>>

NextCall == DetectSignals \/ CvdMomentum \/ FormatTickets

SpecSignals == InitCall /\ [][NextCall]_vars

----------------------------------------------------------------------------
(* main.py: the session and the Refresh Snapshot handler *)

\* st.session_state.trade_ready_df = None
NoFrame == (<<"None">> :> <<>>)

\* config.get_current_utc() at the moment of a Refresh
Times == {1, 2}

\* bq_service.get_weekly_levels(): it raises, or returns the weekly rows the
\* query selects (WHERE timeframe = 'W')
WeeklyFetches ==
    {[raised |-> TRUE, df |-> {}]}
    \cup {[raised |-> FALSE, df |-> d] :
            d \in SubsetsUpTo({r \in PoolRows : r["timeframe"] = "W"}, MaxRows)}

\* binance_service.get_current_prices(): a failed fetch is reported there and
\* an empty Series is returned
PriceFetches ==
    {[failed |-> TRUE, prices |-> <<>>]}
    \cup {[failed |-> FALSE, prices |-> p] : p \in PoolPrices}

\* the call of line 53 with every keyword accepted
CallContext_any_keyword(df, prices, pick, keywords) ==
    calculate_trade_ready_context(df, prices, pick)

\* calculate_trade_ready_context(weekly_df, prices_series, **keywords): the
\* function has the two positional parameters only, so that a call with a
\* keyword raises TypeError before its body runs
CallContext(df, prices, pick, keywords) ==
    IF DOMAIN keywords # {} THEN [raised |-> TRUE, df |-> EmptyDF]
    ELSE calculate_trade_ready_context(df, prices, pick)

\* the stages of the application: what the latest run of the script did ("app":
\* no button was pressed), for a Refresh the outcome of its fetches
AppStages == {"app", "bq_failed", "prices_failed", "fetched"}

InitApp ==
    /\ stage = "app"
    /\ weekly_df = {}
    /\ current_prices = <<>>
    /\ context_df = EmptyDF
    /\ trade_ready_df = NoFrame
    /\ klines = NoKlines
    /\ signals = <<>>
    /\ cvd = NoCvd
    /\ refresh_timestamp = NoTimestamp
    /\ messages = <<>>
    /\ tickets = <<>>

\* The Refresh Snapshot button: the whole handler, its try block and its
\* except clause.  st.rerun() starts the script again, which shows no message.
Refresh ==
    /\ stage \in AppStages
    /\ \E include_dev \in BOOLEAN, w \in WeeklyFetches, p \in PriceFetches, now \in Times :
         \E pick \in LatestPicks(w.df) :
           LET reported == IF p.failed THEN <<"Binance Price Fetch Error">> ELSE <<>>
               res == CallContext(w.df, p.prices, pick, [include_developing |-> include_dev])
           IN  IF w.raised
               THEN /\ stage' = "bq_failed"
                    /\ messages' = <<"Error refreshing data">>
                    /\ UNCHANGED <<weekly_df, current_prices, context_df, trade_ready_df,
                                   refresh_timestamp>>
               ELSE /\ stage' = IF p.failed THEN "prices_failed" ELSE "fetched"
                    /\ weekly_df' = w.df
                    /\ current_prices' = p.prices
                    /\ IF res.raised
                       THEN /\ messages' = Append(reported, "Error refreshing data")
                            /\ UNCHANGED <<context_df, trade_ready_df, refresh_timestamp>>
                       ELSE /\ context_df' = res.df
                            /\ trade_ready_df' = classify_relevance(res.df)
                            /\ refresh_timestamp' = now
                            /\ messages' = <<>>
    /\ UNCHANGED <<klines, signals, cvd, tickets>>

\* Any other interaction runs the script again without the button pressed:
\* the messages of the run before are gone.
Rerun ==
    /\ stage \in AppStages
    /\ stage' = "app"
    /\ messages' = <<>>
    /\ UNCHANGED <<weekly_df, current_prices, context_df, trade_ready_df, klines,
                   signals, cvd, refresh_timestamp, tickets>>

NextApp == Refresh \/ Rerun

SpecApp == InitApp /\ [][NextApp]_vars

----------------------------------------------------------------------------
(* Properties *)

\* the stages at which context_df is what calculate_trade_ready_context returned
Returned == {"context", "classified", "scanned"}

\* the stages at which trade_ready_df is what classify_relevance returned
Banded == {"classified", "scanned", "rows_band"}

Members(list) == {list[i] : i \in 1..Len(list)}

StructuralFields ==
    {"final_poc", "final_vah", "final_val", "prior_final_poc", "prior_final_vah",
     "prior_final_val", "va_width_pct", "value_overlap_pct"}

\* The band the priority chain of C1 gives a row: the rule of the lowest
\* number whose condition the row meets.
ChainRule(row) ==
    LET w == Members(Get(row, "warnings", <<>>))
        g == Get(row, "regime_w1", "TRANSITIONAL")
        i == Get(row, "now_interaction_w1", "UNKNOWN")
        meets == [n \in 1..6 |->
                    CASE n = 1 -> "COMPRESSED" \in w
                      [] n = 2 -> "PINNED" \in w /\ g = "BALANCED"
                      [] n = 3 -> i \in {"TEST_POC", "TEST_VAL", "TEST_VAH"}
                      [] n = 4 -> g \in {"TRENDING", "TRANSITIONAL"}
                      [] n = 5 -> g = "BALANCED" /\ i = "INSIDE_VALUE"
                      [] n = 6 -> TRUE]
    IN  CHOOSE n \in 1..6 : meets[n] /\ \A m \in 1..(n - 1) : ~meets[m]

ChainBand(row) ==
    CASE ChainRule(row) \in {1, 2, 6} -> "Ignore for Now"
      [] ChainRule(row) \in {3, 4} -> "Trade Ready"
      [] ChainRule(row) = 5 -> "Watch"

\* C1: classify_relevance gives every row the band of the first rule of the
\* chain that matches it, and every row that calculate_trade_ready_context
\* built from a va_width_pct below 0.015 carries COMPRESSED and is banded
\* 'Ignore for Now', whatever its interaction tag and regime.
C1_BandIsFirstMatchingRule ==
    stage \in Banded =>
        /\ DOMAIN trade_ready_df = DOMAIN context_df
        /\ \A s \in DOMAIN trade_ready_df :
             LET row == trade_ready_df[s]
             IN  /\ row["relevance_band"] = ChainBand(context_df[s])
                 /\ (stage # "rows_band" /\ ~IsNA(row["va_width_pct"])
                        /\ row["va_width_pct"] < COMPRESSION_THRESHOLD)
                    => /\ "COMPRESSED" \in Members(row["warnings"])
                       /\ row["relevance_band"] = "Ignore for Now"

\* a compressed row that tests the point of control in a trending regime
C1_Witness ==
    /\ stage = "classified"
    /\ \E s \in DOMAIN trade_ready_df :
         /\ trade_ready_df[s]["va_width_pct"] = 100
         /\ trade_ready_df[s]["now_interaction_w1"] = "TEST_POC"
         /\ trade_ready_df[s]["regime_w1"] = "TRENDING"
         /\ trade_ready_df[s]["relevance_band"] = "Ignore for Now"

\* C2: after Run Signals, a Trade Ready symbol whose context row is TRENDING
\* with interaction TEST_POC (or below value), and whose fetched series of at
\* least 25 candles has BULLISH CVD momentum, has a CVD_BULLISH_ALIGN signal
\* carrying the regime, location and price of its context row.
C2_BullishAlignmentInPipeline ==
    stage = "scanned" =>
        \A s \in DOMAIN klines :
            LET row == trade_ready_df[s]
            IN  ( /\ row["relevance_band"] = "Trade Ready"
                  /\ row["regime_w1"] = "TRENDING"
                  /\ row["now_interaction_w1"] \in {"TEST_POC", "BELOW_VALUE"}
                  /\ Len(klines[s].candles) >= MIN_CANDLES
                  /\ calculate_cvd_momentum(klines[s], SHORT_PERIOD, LONG_PERIOD)[1] = "BULLISH" )
                => \E i \in 1..Len(signals) :
                      /\ signals[i].symbol = s
                      /\ signals[i].trigger = "CVD_BULLISH_ALIGN"
                      /\ signals[i].auction_state = row["regime_w1"]
                      /\ signals[i].price_loc \in {row["now_interaction_w1"], "BELOW"}
                      /\ signals[i].current_price = row["price"]

SameStructure(row, r) == \A f \in StructuralFields : row[f] = r[f]

RowsOf(s) == {r \in weekly_df : StripSuffix(r["symbol"]) = s}

\* C3 as stated: every returned row of a symbol that has a weekly row carries
\* the structural fields of the symbol's latest-period weekly row, whatever
\* else the input holds.
C3_LatestWeeklyRow ==
    stage \in Returned =>
        \A s \in DOMAIN context_df :
            (\E w \in RowsOf(s) : w["timeframe"] = "W") =>
                \E r \in RowsOf(s) :
                    /\ r["timeframe"] = "W"
                    /\ \A o \in RowsOf(s) :
                         o["timeframe"] = "W" => o["period_start_date"] <= r["period_start_date"]
                    /\ SameStructure(context_df[s], r)

\* C3 amended: every returned row carries the structural fields of one
\* latest-period row of its symbol among all the symbol's rows, whatever their
\* timeframe, never those of an older period; it is a latest weekly row
\* whenever every other-timeframe row of the symbol has an earlier period.
C3_LatestRowOfAnyTimeframe ==
    stage \in Returned =>
        \A s \in DOMAIN context_df :
            /\ \E r \in RowsOf(s) :
                 /\ \A o \in RowsOf(s) : o["period_start_date"] <= r["period_start_date"]
                 /\ SameStructure(context_df[s], r)
                 /\ context_df[s]["period_start_date"] = r["period_start_date"]
                 /\ context_df[s]["timeframe"] = r["timeframe"]
            /\ (\E w \in RowsOf(s) :
                  /\ w["timeframe"] = "W"
                  /\ \A o \in RowsOf(s) :
                       o["timeframe"] # "W" => o["period_start_date"] < w["period_start_date"])
               => /\ context_df[s]["timeframe"] = "W"
                  /\ \A o \in RowsOf(s) :
                       o["period_start_date"] <= context_df[s]["period_start_date"]

\* a symbol with rows of two periods and two timeframes got its row
C3_Witness ==
    /\ stage = "context"
    /\ \E s \in DOMAIN context_df :
         /\ \E a \in RowsOf(s), b \in RowsOf(s) :
              /\ a["timeframe"] = "W" /\ b["timeframe"] = "D"
              /\ a["period_start_date"] > b["period_start_date"]
         /\ context_df[s]["timeframe"] = "W"

\* the symbols that have both a structural row and a price
Covered ==
    {s \in {StripSuffix(r["symbol"]) : r \in weekly_df} :
        s \in DOMAIN current_prices /\ ~IsNA(current_prices[s])}

\* C4: once calculate_trade_ready_context has been called, its result has
\* exactly one row for each normalized symbol that has a structural row and a
\* price, and none for any other symbol.
C4_OneRowPerCoveredSymbol ==
    stage \in Returned \cup {"raised"} => DOMAIN context_df = Covered

C6_PinnedIffBoth ==
    stage \in Returned =>
        \A s \in DOMAIN context_df :
            LET row == context_df[s]
                near == ~IsNA(row["pct_to_w_poc"]) /\ Abs(row["pct_to_w_poc"]) < 20
                tight == ~IsNA(row["va_width_pct"]) /\ row["va_width_pct"] < 200
            IN  /\ "PINNED" \in Members(row["warnings"]) <=> (near /\ tight)
                /\ row["pct_to_w_poc"] = pct_distance(row["price"], row["final_poc"])

\* a pinned row that is not compressed
C6_Witness ==
    /\ stage = "context"
    /\ \E s \in DOMAIN context_df :
         /\ "PINNED" \in Members(context_df[s]["warnings"])
         /\ "COMPRESSED" \notin Members(context_df[s]["warnings"])
         /\ context_df[s]["price"] # context_df[s]["final_poc"]

\* The verdict C7 states for a row.
BiasTable(row) ==
    LET w == Members(Get(row, "warnings", <<>>))
        g == Get(row, "regime_w1", "TRANSITIONAL")
        d == Get(row, "htf_dir_w1", "NEUTRAL")
        i == Get(row, "now_interaction_w1", "UNKNOWN")
    IN  IF w \cap {"PINNED", "COMPRESSED"} # {} THEN "NEUTRAL_WAIT"
        ELSE IF g = "TRENDING" /\ d = "UP"
                /\ i \in {"BELOW_VALUE", "TEST_VAL", "TEST_POC", "INSIDE_VALUE"}
             THEN "FAVORS_LONG"
        ELSE IF g = "TRENDING" /\ d = "DOWN"
                /\ i \in {"ABOVE_VALUE", "TEST_VAH", "TEST_POC", "INSIDE_VALUE"}
             THEN "FAVORS_SHORT"
        ELSE IF g \in {"BALANCED", "TRANSITIONAL"} /\ i \in {"TEST_VAL", "BELOW_VALUE"}
             THEN "FAVORS_LONG"
        ELSE IF g \in {"BALANCED", "TRANSITIONAL"} /\ i \in {"TEST_VAH", "ABOVE_VALUE"}
             THEN "FAVORS_SHORT"
        ELSE "NEUTRAL_WAIT"

\* a TRENDING, direction-UP row of a well-formed value area whose price is 5%
\* above the value-area high
FivePercentAbove(row) ==
    /\ 0 < row["final_val"]
    /\ row["final_val"] <= row["final_poc"]
    /\ row["final_poc"] <= row["final_vah"]
    /\ row["price"] * 100 = row["final_vah"] * 105
    /\ row["regime_w1"] = "TRENDING"
    /\ row["htf_dir_w1"] = "UP"

\* C7: compute_bias_compatibility returns the verdict of the table for every
\* combination of warnings, regime, direction and interaction tag; and a
\* TRENDING, direction-UP row priced 5% above the value-area high is
\* ABOVE_VALUE, NEUTRAL_WAIT and EXTENDED.
C7_BiasTable ==
    stage \in Returned \cup {"rows_bias", "rows_band"} =>
        \A s \in DOMAIN context_df :
            LET row == context_df[s]
            IN  /\ row["bias_compatibility"] = BiasTable(row)
                /\ (stage \in Returned /\ FivePercentAbove(row))
                   => /\ row["now_interaction_w1"] = "ABOVE_VALUE"
                      /\ row["bias_compatibility"] = "NEUTRAL_WAIT"
                      /\ "EXTENDED" \in Members(row["warnings"])

\* the scenario, on a row that is neither pinned nor compressed
C7_Witness ==
    /\ stage = "context"
    /\ \E s \in DOMAIN context_df :
         /\ FivePercentAbove(context_df[s])
         /\ context_df[s]["warnings"] = <<"EXTENDED">>
         /\ context_df[s]["bias_compatibility"] = "NEUTRAL_WAIT"

\* C10 as stated: no exception escapes calculate_trade_ready_context because
\* of a zero reference level, and the percent distance to a zero level is null.
C10_ZeroLevelNeverRaises ==
    /\ stage # "raised"
    /\ stage \in Returned =>
         \A s \in DOMAIN context_df :
             LET row == context_df[s]
             IN  /\ row["final_val"] = 0 => IsNA(row["pct_to_w_val"])
                 /\ row["final_poc"] = 0 => IsNA(row["pct_to_w_poc"])
                 /\ row["final_vah"] = 0 => IsNA(row["pct_to_w_vah"])

\* the candles and the context row of the direct call
CallCandles == klines[BTC].candles

CallRow == trade_ready_df[BTC]

Triggers == {signals[i].trigger : i \in 1..Len(signals)}

\* C8: detect_signals returns no signal for fewer than 25 candles; for at
\* least 25 it returns a volume-spike signal exactly when the latest z-score is
\* defined, at least 2.5, and the location is TEST_POC, ABOVE or BELOW, whether
\* or not an alignment signal is returned with it; an undefined z-score fires
\* no volume spike and is null, not 0, in the alignment signals.
C8_VolumeSpikeIff ==
    stage = "detected" =>
        LET loc == Get(CallRow, "price_loc_w", "UNKNOWN")
            spike == /\ ZDefined(CallCandles, 20)
                     /\ ZAtLeast(CallCandles, 20, 25)
                     /\ loc \in {"TEST_POC", "ABOVE", "BELOW"}
        IN  /\ Len(CallCandles) < 25 => signals = <<>>
            /\ Len(CallCandles) >= 25 =>
                 /\ "VOL_ZSCORE" \in Triggers <=> spike
                 /\ Cardinality({i \in 1..Len(signals) : signals[i].trigger = "VOL_ZSCORE"}) <= 1
                 /\ ~ZDefined(CallCandles, 20) =>
                      /\ "VOL_ZSCORE" \notin Triggers
                      /\ \A i \in 1..Len(signals) : IsNA(signals[i].zscore)
                 /\ ZDefined(CallCandles, 20) =>
                      \A i \in 1..Len(signals) : ~IsNA(signals[i].zscore)

\* one call returned a volume spike and an alignment signal
C8_Witness ==
    /\ stage = "detected"
    /\ Len(CallCandles) >= 25
    /\ Triggers = {"VOL_ZSCORE", "CVD_BULLISH_ALIGN"}

\* an alignment signal that carries an undefined z-score
C8_WitnessNull ==
    /\ stage = "detected"
    /\ \E i \in 1..Len(signals) :
         signals[i].trigger = "CVD_BEARISH_ALIGN" /\ IsNA(signals[i].zscore)

\* 30 candles, each with a positive volume of which more than 0.55 is taker-buy
ThirtyBuyCandles ==
    /\ Len(CallCandles) = 30
    /\ \A i \in 1..30 :
         /\ CallCandles[i].volume > 0
         /\ 100 * CallCandles[i].taker_buy_base > 55 * CallCandles[i].volume

StrictlyIncreasing(seq) == \A i \in 1..(Len(seq) - 1) : seq[i] < seq[i + 1]

\* C9 as stated: on such a series the CVD curve is strictly increasing and
\* calculate_cvd_momentum returns BULLISH.
C9_BuyCandlesAreBullish ==
    (stage = "momentum" /\ ThirtyBuyCandles) =>
        /\ StrictlyIncreasing(CvdCurve(CallCandles))
        /\ cvd[1] = "BULLISH"

\* C9 amended: on such a series the CVD curve is strictly increasing and
\* calculate_cvd_momentum returns BULLISH or NEUTRAL, never BEARISH, with a
\* strictly positive delta; it returns BULLISH when all 30 candles have the
\* same volume and the same taker-buy volume.
C9_BuyCandlesAreNeverBearish ==
    (stage = "momentum" /\ ThirtyBuyCandles) =>
        /\ StrictlyIncreasing(CvdCurve(CallCandles))
        /\ cvd[1] \in {"BULLISH", "NEUTRAL"}
        /\ ~IsNA(cvd[2]) /\ cvd[2] > 0
        /\ (\A i \in 1..30 : CallCandles[i] = CallCandles[1]) => cvd[1] = "BULLISH"

\* a series of differing volumes that is BULLISH
C9_Witness ==
    /\ stage = "momentum"
    /\ ThirtyBuyCandles
    /\ \E i \in 1..30 : CallCandles[i].volume # CallCandles[1].volume
    /\ cvd[1] = "BULLISH"

\* a series of differing volumes that is NEUTRAL
C9_WitnessNeutral ==
    /\ stage = "momentum"
    /\ ThirtyBuyCandles
    /\ cvd[1] = "NEUTRAL"

\* the session state: what a handler may keep from one run to the next
Session == <<trade_ready_df, refresh_timestamp, signals>>

C16_RefreshStoresClassifiedContext ==
    stage = "fetched" =>
        /\ refresh_timestamp # NoTimestamp
        /\ \E pick \in LatestPicks(weekly_df) :
             LET res == calculate_trade_ready_context(weekly_df, current_prices, pick)
             IN  ~res.raised /\ trade_ready_df = classify_relevance(res.df)

\* C12: a call of detect_signals leaves the candle series it was given (its
\* columns and values) and the context row unchanged.
C12_DetectSignalsLeavesItsInputs ==
    [][stage' = "detected" => (klines' = klines /\ trade_ready_df' = trade_ready_df)]_vars

\* |price - level| / level <= 0.002
Tests(price, level) == Abs(price - level) * 1000 <= 2 * level

\* The first tag of C13's order that applies to a row, UNKNOWN when none does.
FirstTag(row) ==
    LET p == row["price"]
        order == <<"TEST_POC", "TEST_VAL", "TEST_VAH", "INSIDE_VALUE", "BELOW_VALUE",
                   "ABOVE_VALUE">>
        applies == [n \in 1..6 |->
                      CASE n = 1 -> Tests(p, row["final_poc"])
                        [] n = 2 -> Tests(p, row["final_val"])
                        [] n = 3 -> Tests(p, row["final_vah"])
                        [] n = 4 -> row["final_val"] <= p /\ p <= row["final_vah"]
                        [] n = 5 -> p < row["final_val"]
                        [] n = 6 -> p > row["final_vah"]]
    IN  IF \E n \in 1..6 : applies[n]
        THEN order[CHOOSE n \in 1..6 : applies[n] /\ \A m \in 1..(n - 1) : ~applies[m]]
        ELSE "UNKNOWN"

PositiveLevels(row) ==
    /\ row["price"] > 0
    /\ row["final_val"] > 0
    /\ row["final_poc"] > 0
    /\ row["final_vah"] > 0

\* C13: for positive price and levels the interaction tag is the first that
\* applies in the order TEST_POC, TEST_VAL, TEST_VAH, INSIDE_VALUE,
\* BELOW_VALUE, ABOVE_VALUE, and never UNKNOWN, also when the low is above
\* the high.
C13_FirstApplicableTag ==
    stage \in Returned =>
        \A s \in DOMAIN context_df :
            PositiveLevels(context_df[s]) =>
                /\ context_df[s]["now_interaction_w1"] = FirstTag(context_df[s])
                /\ context_df[s]["now_interaction_w1"] # "UNKNOWN"

\* a price between the high and the low of an inverted value area
C13_Witness ==
    /\ stage = "context"
    /\ \E s \in DOMAIN context_df :
         /\ PositiveLevels(context_df[s])
         /\ context_df[s]["final_vah"] < context_df[s]["price"]
         /\ context_df[s]["price"] < context_df[s]["final_val"]
         /\ context_df[s]["now_interaction_w1"] = "BELOW_VALUE"

\* C14: each tag occurs at most once in the warnings of a context row, and
\* EXTENDED exactly once whenever the distance to the low is below -2.0 or
\* the distance to the high is above +2.0.
C14_WarningsAreASet ==
    stage \in Returned =>
        \A s \in DOMAIN context_df :
            LET row == context_df[s]
                w == row["warnings"]
                low == ~IsNA(row["pct_to_w_val"]) /\ row["pct_to_w_val"] < -200
                high == ~IsNA(row["pct_to_w_vah"]) /\ row["pct_to_w_vah"] > 200
            IN  /\ \A i \in 1..Len(w) : \A j \in 1..Len(w) : w[i] = w[j] => i = j
                /\ (low \/ high) =>
                     Cardinality({i \in 1..Len(w) : w[i] = "EXTENDED"}) = 1

\* The ticket C15 states for a signal: the z-score of 2 decimals, the text
\* absent (N/A or NA) in its place when there is none.
TicketOf(signal, absent) ==
    signal["symbol"] \o <<" | ", signal["trigger"], " | ", "Z:">>
    \o (IF IsNA(signal["zscore"]) THEN <<absent>> ELSE FloatText(signal["zscore"]))
    \o <<" | ", "CVD:", signal["cvd_momentum"], " | ", "Loc:", signal["price_loc"],
         " | ", "State:", signal["auction_state"], " | ", "@">>
    \o PriceText(signal["current_price"])

\* C15: format_ticket renders every signal detect_signals emits in the form
\* 'symbol | trigger | Z:.. | CVD:.. | Loc:.. | State:.. | @price', the z-score
\* rounded to 2 decimals when defined and N/A (or NA) when absent, the price
\* at 2 decimals.
C15_TicketShowsNAForAbsentZScore ==
    stage = "formatted" =>
        /\ Len(tickets) = Len(signals)
        /\ \A i \in 1..Len(signals) :
             tickets[i] \in {TicketOf(signals[i], "N/A"), TicketOf(signals[i], "NA")}

\* C17: for at least 21 candles the label and the delta of
\* calculate_cvd_momentum agree in sign: BULLISH only with a strictly positive
\* delta, BEARISH only with a strictly negative one.
C17_LabelAgreesWithDelta ==
    (stage = "momentum" /\ Len(CallCandles) >= 21) =>
        /\ ~IsNA(cvd[2])
        /\ cvd[1] = "BULLISH" => cvd[2] > 0
        /\ cvd[1] = "BEARISH" => cvd[2] < 0

====
